---- MODULE Spec2Model ----
(***************************************************************************)
(* fenicsx_pulse: the compressibility models (compressibility.py) and the  *)
(* composition of material, active and compressibility models into one     *)
(* strain energy (cardiac_model.py).                                       *)
(*                                                                         *)
(* The code builds symbolic (UFL) expressions; the model builds the same   *)
(* expressions as terms: a term is a tuple whose first element names its   *)
(* constructor.  Two terms are equal exactly when they were built the same *)
(* way, so "the material model received Jm13 * Fe" is a statement about a  *)
(* term.                                                                   *)
(***************************************************************************)
EXTENDS Integers, Sequences, FiniteSets, TLC

\* ------------------------------------------------------------------ bounds
NumFields == 2      \* distinct multiplier fields p a caller can pass
NumTensors == 2     \* distinct deformation gradients F a caller can pass
NumScalars == 2     \* distinct scalars J passed to a direct strain_energy(J)
NumKappas == 2      \* distinct coefficients kappa a Compressible is built with

\* ------------------------------------------------------------------- terms
None == <<"None", 0>>
NoAttr == <<"noattr", 0>>            \* a slot the class does not have
Unset == <<"unset", 0>>              \* a local not assigned yet
NoArg == <<"noarg", 0>>

Fields == {<<"p", i>> : i \in 1..NumFields}
Tensors == {<<"F", i>> : i \in 1..NumTensors}
Scalars == {<<"J", i>> : i \in 1..NumScalars}
Kappas == {<<"kappa", i>> : i \in 1..NumKappas}

Const(s) == <<"const", s>>
One == Const("1")                    \* 1.0 and 1: equal numbers in Python
MinusThird == Const("-1/3")
Mul(a, b) == <<"mul", a, b>>
Add(a, b) == <<"add", a, b>>
Sub(a, b) == <<"sub", a, b>>
Pow(a, b) == <<"pow", a, b>>
Ln(a) == <<"ln", a>>

\* What a call gives back: a value, or an exception raised.
Value(v) == [kind |-> "value", val |-> v]
Raise(e) == [kind |-> "raise", val |-> e]
MissingModelAttribute(attr, model) == <<"MissingModelAttribute", attr, model>>

\* --------------------------------------------------- external collaborators
\* Uninterpreted: each wraps its argument in its own constructor.
ActiveFe(F) == <<"Fe", F>>
ActiveStrainEnergy(F) == <<"active.strain_energy", F>>
MaterialStrainEnergy(F) == <<"material.strain_energy", F>>
Jacobian(F) == <<"det", F>>

\* ------------------------------------------------------ compressibility.py
\* An instance is a record; every method gives the instance after the call
\* and what the call returned.
NewIncompressible == [type |-> "Incompressible", p |-> None, kappa |-> NoAttr]
NewCompressible(k) == [type |-> "Compressible", p |-> NoAttr, kappa |-> k]

\* Variant: the base register stores its argument instead of ignoring it.
CompressibilityRegisterStores(self, p) ==
    [comp |-> [self EXCEPT !.p = p], ret |-> Value(None)]

CompressibilityRegister(self, p) == [comp |-> self, ret |-> Value(None)]

\* Variant: register(None) leaves the stored field in place.
IncompressibleRegisterIgnoresNone(self, p) ==
    [comp |-> IF p = None THEN self ELSE [self EXCEPT !.p = p], ret |-> Value(None)]

\* Variant: only the first registered field is stored.
IncompressibleRegisterKeepsFirst(self, p) ==
    [comp |-> IF self.p = None THEN [self EXCEPT !.p = p] ELSE self,
     ret |-> Value(None)]

IncompressibleRegister(self, p) ==
    [comp |-> [self EXCEPT !.p = p], ret |-> Value(None)]

Zero == Const("0")

\* Variant: an unset multiplier is replaced by zero instead of raising.
IncompressibleStrainEnergyDefaultsP(self, J) ==
    [comp |-> self,
     ret |-> Value(Mul(IF self.p = None THEN Zero ELSE self.p, Sub(J, One)))]

\* Variant: p * J - 1.0, the parentheses lost.
IncompressibleStrainEnergyNoParens(self, J) ==
    IF self.p = None
    THEN [comp |-> self, ret |-> Raise(MissingModelAttribute("p", self.type))]
    ELSE [comp |-> self, ret |-> Value(Sub(Mul(self.p, J), One))]

\* Variant: the multiplier is dropped once it has been used.
IncompressibleStrainEnergyConsumesP(self, J) ==
    IF self.p = None
    THEN [comp |-> self, ret |-> Raise(MissingModelAttribute("p", self.type))]
    ELSE [comp |-> [self EXCEPT !.p = None],
          ret |-> Value(Mul(self.p, Sub(J, One)))]

IncompressibleStrainEnergy(self, J) ==
    IF self.p = None
    THEN [comp |-> self, ret |-> Raise(MissingModelAttribute("p", self.type))]
    ELSE [comp |-> self, ret |-> Value(Mul(self.p, Sub(J, One)))]

\* Variant: the answer depends on whether a multiplier is registered.
IncompressibleIsCompressibleUnlessP(self) == [comp |-> self, ret |-> self.p = None]

IncompressibleIsCompressible(self) == [comp |-> self, ret |-> FALSE]

CompressibleStrainEnergy(self, J) ==
    [comp |-> self,
     ret |-> Value(Mul(self.kappa, Add(Sub(Mul(J, Ln(J)), J), One)))]

CompressibleIsCompressible(self) == [comp |-> self, ret |-> TRUE]

\* Method dispatch on the instance's class.
Register(self, p) ==
    IF self.type = "Incompressible"
    THEN IncompressibleRegister(self, p)
    ELSE CompressibilityRegister(self, p)

StrainEnergy(self, J) ==
    IF self.type = "Incompressible"
    THEN IncompressibleStrainEnergy(self, J)
    ELSE CompressibleStrainEnergy(self, J)

IsCompressible(self) ==
    IF self.type = "Incompressible"
    THEN IncompressibleIsCompressible(self)
    ELSE CompressibleIsCompressible(self)

\* -------------------------------------------------------- cardiac_model.py
\* One evaluation of CardiacModel.strain_energy(F, p): its position, its
\* arguments and locals, the collaborator calls it has made, its outcome.
Call(fn, arg) == [fn |-> fn, arg |-> arg]

IdleFrame ==
    [pc |-> "idle", F |-> Unset, p |-> Unset, Fe |-> Unset, J |-> Unset,
     Jm13 |-> Unset, mat |-> Unset, act |-> Unset, vol |-> Unset,
     ret |-> Value(Unset), calls |-> <<>>]

NewFrame(F, p) == [IdleFrame EXCEPT !.pc = "register", !.F = F, !.p = p]

Running == {"register", "Fe", "Jacobian", "split", "material", "active", "volumetric"}
Finished == {"done", "raised"}

\* Variant: register is called only when a multiplier is passed.
StepRegisterSkipsNone(c, fr) ==
    IF fr.p = None
    THEN [comp |-> c, fr |-> [fr EXCEPT !.pc = "Fe"]]
    ELSE LET r == Register(c, fr.p) IN
         [comp |-> r.comp,
          fr |-> [fr EXCEPT !.pc = "Fe",
                            !.calls = Append(@, Call("compressibility.register", fr.p))]]

StepRegister(c, fr) ==
    LET r == Register(c, fr.p) IN
    [comp |-> r.comp,
     fr |-> [fr EXCEPT !.pc = "Fe",
                       !.calls = Append(@, Call("compressibility.register", fr.p))]]

StepFe(c, fr) ==
    [comp |-> c,
     fr |-> [fr EXCEPT !.pc = "Jacobian", !.Fe = ActiveFe(fr.F),
                       !.calls = Append(@, Call("active.Fe", fr.F))]]

StepJacobian(c, fr) ==
    [comp |-> c,
     fr |-> [fr EXCEPT !.pc = "split", !.J = Jacobian(fr.Fe),
                       !.calls = Append(@, Call("kinematics.Jacobian", fr.Fe))]]

\* Variant: the split is applied in the incompressible branch instead.
StepSplitInverted(c, fr) ==
    LET r == IsCompressible(c) IN
    [comp |-> r.comp,
     fr |-> [fr EXCEPT !.pc = "material",
                       !.Jm13 = IF r.ret THEN One ELSE Pow(fr.J, MinusThird),
                       !.calls = Append(@, Call("compressibility.is_compressible", NoArg))]]

StepSplit(c, fr) ==
    LET r == IsCompressible(c) IN
    [comp |-> r.comp,
     fr |-> [fr EXCEPT !.pc = "material",
                       !.Jm13 = IF r.ret THEN Pow(fr.J, MinusThird) ELSE One,
                       !.calls = Append(@, Call("compressibility.is_compressible", NoArg))]]

StepMaterial(c, fr) ==
    LET arg == Mul(fr.Jm13, fr.Fe) IN
    [comp |-> c,
     fr |-> [fr EXCEPT !.pc = "active", !.mat = MaterialStrainEnergy(arg),
                       !.calls = Append(@, Call("material.strain_energy", arg))]]

\* Variant: the active energy is evaluated on Fe instead of F.
StepActiveUsesFe(c, fr) ==
    LET arg == Mul(fr.Jm13, fr.Fe) IN
    [comp |-> c,
     fr |-> [fr EXCEPT !.pc = "volumetric", !.act = ActiveStrainEnergy(arg),
                       !.calls = Append(@, Call("active.strain_energy", arg))]]

StepActive(c, fr) ==
    LET arg == Mul(fr.Jm13, fr.F) IN
    [comp |-> c,
     fr |-> [fr EXCEPT !.pc = "volumetric", !.act = ActiveStrainEnergy(arg),
                       !.calls = Append(@, Call("active.strain_energy", arg))]]

StepVolumetric(c, fr) ==
    LET r == StrainEnergy(c, fr.J)
        log == Append(fr.calls, Call("compressibility.strain_energy", fr.J))
    IN
    [comp |-> r.comp,
     fr |-> IF r.ret.kind = "raise"
            THEN [fr EXCEPT !.pc = "raised", !.ret = r.ret, !.calls = log]
            ELSE [fr EXCEPT !.pc = "done", !.vol = r.ret.val,
                            !.ret = Value(Add(Add(fr.mat, fr.act), r.ret.val)),
                            !.calls = log]]

EvalStep(c, fr) ==
    CASE fr.pc = "register" -> StepRegister(c, fr)
      [] fr.pc = "Fe" -> StepFe(c, fr)
      [] fr.pc = "Jacobian" -> StepJacobian(c, fr)
      [] fr.pc = "split" -> StepSplit(c, fr)
      [] fr.pc = "material" -> StepMaterial(c, fr)
      [] fr.pc = "active" -> StepActive(c, fr)
      [] fr.pc = "volumetric" -> StepVolumetric(c, fr)

RECURSIVE RunToEnd(_, _)
RunToEnd(c, fr) ==
    IF fr.pc \in Finished
    THEN [comp |-> c, fr |-> fr]
    ELSE LET s == EvalStep(c, fr) IN RunToEnd(s.comp, s.fr)

\* The whole call, start to return or raise.
CardiacModelStrainEnergy(c, F, p) == RunToEnd(c, NewFrame(F, p))

\* ------------------------------------------------------------------- state
VARIABLES
    compressibility,   \* the compressibility model the CardiacModel holds
    last,              \* the last call made, its arguments, the state before it, its outcome
    lastRegistered,    \* history: the argument of the most recent register call
    constructed,       \* history: the compressibility model as constructed
    frames,            \* SpecConc: each caller's evaluation in progress
    serialized         \* SpecConc: whether callers serialize their evaluations

vars == <<compressibility, last, lastRegistered, constructed, frames, serialized>>

Callers == {"a", "b"}

NoCall ==
    [op |-> "none", F |-> Unset, p |-> Unset, J |-> Unset,
     pre |-> NewIncompressible, preRegistered |-> None,
     ret |-> Value(Unset), calls |-> <<>>]

Models == {NewIncompressible} \cup {NewCompressible(k) : k \in Kappas}

Init ==
    /\ compressibility \in Models
    /\ constructed = compressibility
    /\ last = NoCall
    /\ lastRegistered = None
    /\ frames = [e \in Callers |-> IdleFrame]
    /\ serialized = TRUE

\* The argument of the last register call among calls, or old when there is none.
RECURSIVE LastRegisterArg(_, _)
LastRegisterArg(calls, old) ==
    IF calls = <<>> THEN old
    ELSE LET c == calls[Len(calls)] IN
         IF c.fn = "compressibility.register" THEN c.arg
         ELSE LastRegisterArg(SubSeq(calls, 1, Len(calls) - 1), old)

\* compressibility.register(p), called directly.
CallRegister(p) ==
    LET r == Register(compressibility, p) IN
    /\ compressibility' = r.comp
    /\ last' = [NoCall EXCEPT !.op = "register", !.p = p, !.pre = compressibility,
                              !.preRegistered = lastRegistered, !.ret = r.ret]
    /\ lastRegistered' = p
    /\ UNCHANGED <<constructed, frames, serialized>>

\* compressibility.strain_energy(J), called directly.
CallStrainEnergy(J) ==
    LET r == StrainEnergy(compressibility, J) IN
    /\ compressibility' = r.comp
    /\ last' = [NoCall EXCEPT !.op = "strain_energy", !.J = J, !.pre = compressibility,
                              !.preRegistered = lastRegistered, !.ret = r.ret]
    /\ UNCHANGED <<lastRegistered, constructed, frames, serialized>>

\* compressibility.is_compressible(), called directly.
CallIsCompressible ==
    LET r == IsCompressible(compressibility) IN
    /\ compressibility' = r.comp
    /\ last' = [NoCall EXCEPT !.op = "is_compressible", !.pre = compressibility,
                              !.preRegistered = lastRegistered, !.ret = Value(<<"bool", r.ret>>)]
    /\ UNCHANGED <<lastRegistered, constructed, frames, serialized>>

\* CardiacModel.strain_energy(F, p), start to end.
CallCardiacModel(F, p) ==
    LET r == CardiacModelStrainEnergy(compressibility, F, p) IN
    /\ compressibility' = r.comp
    /\ last' = [NoCall EXCEPT !.op = "CardiacModel.strain_energy", !.F = F, !.p = p,
                              !.J = r.fr.J, !.pre = compressibility,
                              !.preRegistered = lastRegistered,
                              !.ret = r.fr.ret, !.calls = r.fr.calls]
    /\ lastRegistered' = LastRegisterArg(r.fr.calls, lastRegistered)
    /\ UNCHANGED <<constructed, frames, serialized>>

Next ==
    \/ \E p \in Fields \cup {None} : CallRegister(p)
    \/ \E J \in Scalars : CallStrainEnergy(J)
    \/ CallIsCompressible
    \/ \E F \in Tensors, p \in Fields \cup {None} : CallCardiacModel(F, p)

Spec == Init /\ [][Next]_vars

\* ------------------------------------------- interleaved evaluations (SpecConc)
\* Two callers share the CardiacModel; each evaluation advances one
\* collaborator call at a time.  With serialized, a caller starts only when
\* no other evaluation is in progress.
InitConc ==
    /\ compressibility \in Models
    /\ constructed = compressibility
    /\ last = NoCall
    /\ lastRegistered = None
    /\ frames = [e \in Callers |-> IdleFrame]
    /\ serialized \in BOOLEAN

Begin(e, F, p) ==
    /\ frames[e].pc \notin Running
    /\ serialized => \A o \in Callers : frames[o].pc \notin Running
    /\ frames' = [frames EXCEPT ![e] = NewFrame(F, p)]
    /\ UNCHANGED <<compressibility, last, lastRegistered, constructed, serialized>>

Step(e) ==
    /\ frames[e].pc \in Running
    /\ LET s == EvalStep(compressibility, frames[e]) IN
       /\ compressibility' = s.comp
       /\ frames' = [frames EXCEPT ![e] = s.fr]
       /\ lastRegistered' = IF frames[e].pc = "register"
                            THEN LastRegisterArg(s.fr.calls, lastRegistered)
                            ELSE lastRegistered
    /\ UNCHANGED <<last, constructed, serialized>>

NextConc ==
    \/ \E e \in Callers, F \in Tensors, p \in Fields \cup {None} : Begin(e, F, p)
    \/ \E e \in Callers : Step(e)

SpecConc == InitConc /\ [][NextConc]_vars

\* ------------------------------------------------------------------ claims
Incompressible == constructed.type = "Incompressible"
Compressible == constructed.type = "Compressible"
MissingP == MissingModelAttribute("p", "Incompressible")
CallsTo(fn) == {i \in 1..Len(last.calls) : last.calls[i].fn = fn}
Evaluated == last.op = "CardiacModel.strain_energy"
\* The terms of one evaluation, written out from its argument F.
FeOf(F) == <<"Fe", F>>
JOf(F) == <<"det", <<"Fe", F>>>>
PenaltyOf(k, J) == <<"mul", k, <<"add", <<"sub", <<"mul", J, <<"ln", J>>>>, J>>, <<"const", "1">>>>>>
MultiplierTermOf(p, J) == <<"mul", p, <<"sub", J, <<"const", "1">>>>>>
FactorOf(F) ==
    IF Compressible THEN <<"pow", JOf(F), <<"const", "-1/3">>>> ELSE <<"const", "1">>

\* C1: Incompressible.strain_energy(J) with the multiplier slot unset (never
\* registered, or the most recent register passed None) raises
\* MissingModelAttribute(attr "p", model "Incompressible") for every J, returns
\* no value, and leaves the slot unset.
C1_UnsetRaises ==
    (/\ last.op = "strain_energy"
     /\ Incompressible
     /\ (last.pre.p = None \/ last.preRegistered = None))
    => /\ last.ret.kind = "raise"
       /\ last.ret.val = MissingP
       /\ compressibility.p = None

C1_Witness ==
    /\ last.op = "strain_energy"
    /\ Incompressible
    /\ last.pre.p = None
    /\ last.preRegistered = None
    /\ last.J = <<"J", 2>>
    /\ last.ret.kind = "raise"

\* C2: Incompressible.strain_energy(J) after a most recent register(p) with a
\* field p returns exactly p * (J - 1) with that p.
C2_RegisteredValue ==
    (/\ last.op = "strain_energy"
     /\ Incompressible
     /\ last.preRegistered # None)
    => /\ last.ret.kind = "value"
       /\ last.ret.val = MultiplierTermOf(last.preRegistered, last.J)

C2_Witness ==
    /\ last.op = "strain_energy"
    /\ Incompressible
    /\ last.preRegistered = <<"p", 2>>
    /\ last.ret.kind = "value"
    /\ last.ret.val = MultiplierTermOf(<<"p", 2>>, last.J)

\* C3: in CardiacModel.strain_energy the material model receives
\* J^(-1/3) * Fe exactly when the compressibility model is compressible, and
\* 1.0 * Fe when it is not, with J the Jacobian of Fe = active.Fe(F).
C3_SplitOnlyWhenCompressible ==
    Evaluated =>
        /\ Cardinality(CallsTo("material.strain_energy")) = 1
        /\ \A i \in CallsTo("material.strain_energy") :
              last.calls[i].arg = <<"mul", FactorOf(last.F), FeOf(last.F)>>

C3_Witness ==
    /\ Evaluated
    /\ Compressible
    /\ \E i \in CallsTo("material.strain_energy") :
          last.calls[i].arg =
              <<"mul", <<"pow", JOf(last.F), <<"const", "-1/3">>>>, FeOf(last.F)>>

\* C4: when no collaborator fails, CardiacModel.strain_energy(F, p) returns
\* material.strain_energy(Jm13 * Fe) + active.strain_energy(Jm13 * F)
\* + compressibility.strain_energy(J), with Fe = active.Fe(F), J the Jacobian
\* of Fe, the same Jm13 in the first two terms and the unscaled J in the third.
C4_SumOfThreeTerms ==
    (Evaluated /\ last.ret.kind = "value") =>
        last.ret.val =
            <<"add",
              <<"add",
                <<"material.strain_energy", <<"mul", FactorOf(last.F), FeOf(last.F)>>>>,
                <<"active.strain_energy", <<"mul", FactorOf(last.F), last.F>>>>>>,
              IF Compressible
              THEN PenaltyOf(constructed.kappa, JOf(last.F))
              ELSE MultiplierTermOf(last.p, JOf(last.F))>>

C4_Witness ==
    /\ Evaluated
    /\ Incompressible
    /\ last.p = <<"p", 1>>
    /\ last.ret.kind = "value"
    /\ \E i \in CallsTo("active.strain_energy") :
          last.calls[i].arg = <<"mul", <<"const", "1">>, last.F>>

\* C5: every CardiacModel.strain_energy(F, p) calls compressibility.register
\* exactly once, with its own p (None included), before every other
\* collaborator call, for both kinds of model and also when it then raises.
C5_RegisterOnceFirst ==
    Evaluated =>
        /\ CallsTo("compressibility.register") = {1}
        /\ last.calls[1].arg = last.p
        /\ Len(last.calls) > 1

C5_Witness ==
    /\ Evaluated
    /\ last.p = None
    /\ last.ret.kind = "raise"
    /\ CallsTo("compressibility.register") = {1}
    /\ last.calls[1].arg = None

\* C6: with an Incompressible model, CardiacModel.strain_energy(F) without p
\* raises MissingModelAttribute, unchanged, also when a field was registered
\* before the call: the earlier field is cleared and not used.
C6_StaleMultiplierCleared ==
    (Evaluated /\ Incompressible /\ last.p = None)
    => /\ last.ret.kind = "raise"
       /\ last.ret.val = MissingP
       /\ compressibility.p = None

C6_Witness ==
    /\ Evaluated
    /\ Incompressible
    /\ last.p = None
    /\ last.pre.p = <<"p", 1>>
    /\ last.ret.kind = "raise"
    /\ last.ret.val = MissingP

\* C7: serialized evaluations on one Incompressible model each use their own
\* p in the volumetric term (and raise exactly when their p is None); the
\* witness is an interleaved evaluation called with p1 whose volumetric term
\* is p2 * (J - 1).
C7_SerializedUsesOwnP ==
    (serialized /\ Incompressible) =>
        \A e \in Callers :
            /\ frames[e].pc = "done" =>
                  /\ frames[e].p # None
                  /\ frames[e].vol = MultiplierTermOf(frames[e].p, JOf(frames[e].F))
            /\ frames[e].pc = "raised" =>
                  /\ frames[e].p = None
                  /\ frames[e].ret.val = MissingP

C7_Witness ==
    /\ ~serialized
    /\ Incompressible
    /\ frames["a"].pc = "done"
    /\ frames["a"].p = <<"p", 1>>
    /\ frames["a"].vol = MultiplierTermOf(<<"p", 2>>, JOf(frames["a"].F))
    /\ frames["a"].calls[1] = Call("compressibility.register", <<"p", 1>>)

\* C8: on an Incompressible model the stored multiplier is always the
\* argument of the most recent register call (None before any); register
\* never fails and strain_energy never changes what is stored.
C8_LastRegisterWins ==
    Incompressible =>
        /\ compressibility.p = lastRegistered
        /\ last.op = "register" => (last.ret.kind = "value" /\ compressibility.p = last.p)
        /\ last.op = "strain_energy" => compressibility = last.pre

C8_Witness ==
    /\ Incompressible
    /\ last.op = "register"
    /\ last.p = <<"p", 2>>
    /\ last.pre.p = <<"p", 2>>
    /\ compressibility.p = <<"p", 2>>

\* C9: is_compressible() is false for an Incompressible model and true for a
\* Compressible one in every reachable state, and calling it changes nothing.
C9_IsCompressibleConstant ==
    /\ IsCompressible(compressibility).ret = Compressible
    /\ IsCompressible(compressibility).comp = compressibility
    /\ last.op = "is_compressible" =>
          /\ last.ret.val = <<"bool", Compressible>>
          /\ compressibility = last.pre

C9_Witness ==
    /\ Incompressible
    /\ last.op = "is_compressible"
    /\ last.pre.p = <<"p", 1>>
    /\ last.ret.val = <<"bool", FALSE>>

\* C10: a Compressible model is never changed by register; its
\* strain_energy(J) is kappa * (J * ln(J) - J + 1) with the kappa it was
\* constructed with and never raises; CardiacModel.strain_energy with it
\* gives the same result whatever p is passed.
C10_CompressibleIgnoresRegister ==
    Compressible =>
        /\ compressibility = constructed
        /\ last.op = "strain_energy" =>
              last.ret = Value(PenaltyOf(constructed.kappa, last.J))
        /\ Evaluated =>
              /\ last.ret.kind = "value"
              /\ \A i \in CallsTo("compressibility.strain_energy") :
                    last.calls[i].arg = JOf(last.F)
              /\ last.ret.val =
                    <<"add",
                      <<"add",
                        <<"material.strain_energy", <<"mul", FactorOf(last.F), FeOf(last.F)>>>>,
                        <<"active.strain_energy", <<"mul", FactorOf(last.F), last.F>>>>>>,
                      PenaltyOf(constructed.kappa, JOf(last.F))>>

C10_Witness ==
    /\ Compressible
    /\ Evaluated
    /\ last.p = <<"p", 1>>
    /\ lastRegistered = <<"p", 1>>
    /\ compressibility = constructed
    /\ last.ret.kind = "value"

====
